---------------------------- MODULE Spec2Model ----------------------------
(***************************************************************************)
(* Genetic programming function evolution (src/src/genetic_programming.py) *)
(*                                                                         *)
(* Expression trees live in a heap of node objects, so that object         *)
(* identity (the `is` of replace_node), copying and aliasing are part of   *)
(* the model.  Numbers are Python numbers: unbounded ints and floats with  *)
(* +inf, -inf and nan.                                                     *)
(***************************************************************************)
EXTENDS Integers, Sequences, FiniteSets, TLC

VARIABLES
    pc,               \* position of the driver / of the harness
    population_size,  \* self.population_size
    max_depth,        \* self.max_depth
    tournament_size,  \* self.tournament_size
    constant_range,   \* self.constant_range
    generations,      \* argument of evolve()
    generation,       \* loop variable of evolve()
    heap,             \* the Node objects alive, indexed by identity
    population,       \* self.population       (roots)
    fitness_scores,   \* self.fitness_scores
    stats_history,    \* self.stats_history
    new_population,   \* local of create_next_generation (roots)
    parent1, parent2, \* locals of create_next_generation / arguments of crossover
    child1, child2,   \* locals of create_next_generation / results of crossover, mutate
    obs,              \* what the last crossover/mutate call saw and returned
    ev                \* inputs and result of a single evaluate / evaluate_fitness call

vars == <<pc, population_size, max_depth, tournament_size, constant_range,
          generations, generation, heap, population, fitness_scores,
          stats_history, new_population, parent1, parent2, child1, child2,
          obs, ev>>

-----------------------------------------------------------------------------
(* Bounds of the model *)

\* largest population_size explored
MaxPopulation == 3
\* largest generation budget explored
MaxGenerations == 2
\* largest tournament_size explored
MaxTournament == 2
\* largest max_depth explored
MaxDepthCfg == 2
\* no tree of the driver grows beyond this many nodes
MaxNodes == 5
\* a freshly generated random tree has at most this many nodes
MaxNewNodes == 3
\* the sample set is the window -SampleLo .. -SampleHi of range(-10, 11)
SampleLo == 2
SampleHi == 1
\* stands for the largest finite float (sys.float_info.max)
FloatMax == 3
\* number of trees the operator harness keeps
PoolSize == 2
\* largest tree whose evaluation is checked on its own
MaxEvalNodes == 7
\* constant_range is (1, c) for c up to this: the terminal set is x, 1, .., c
MaxConstant == 0

NULL == 0

-----------------------------------------------------------------------------
(* Python numbers *)

PyInt(n)   == [k |-> "int",   v |-> n]
PyFloat(n) == [k |-> "float", v |-> n]
PosInf     == [k |-> "inf",   v |-> 0]
NegInf     == [k |-> "ninf",  v |-> 0]
NaN        == [k |-> "nan",   v |-> 0]

IsFinite(a) == a.k \in {"int", "float"}

\* a float result beyond the largest finite float becomes an infinity
FloatRound(n) ==
    IF n > FloatMax THEN PosInf
    ELSE IF n < -FloatMax THEN NegInf
    ELSE PyFloat(n)

\* int -> float conversion raises OverflowError when the int is too large
TooLarge(a) == a.k = "int" /\ (a.v > FloatMax \/ a.v < -FloatMax)

ToFloat(a) == IF a.k = "int" THEN PyFloat(a.v) ELSE a

FloatNeg(a) ==
    CASE a.k = "inf"  -> NegInf
      [] a.k = "ninf" -> PosInf
      [] a.k = "nan"  -> NaN
      [] OTHER        -> PyFloat(-a.v)

FloatAdd(a, b) ==
    IF a.k = "nan" \/ b.k = "nan" THEN NaN
    ELSE IF a.k = "inf" THEN (IF b.k = "ninf" THEN NaN ELSE PosInf)
    ELSE IF a.k = "ninf" THEN (IF b.k = "inf" THEN NaN ELSE NegInf)
    ELSE IF b.k \in {"inf", "ninf"} THEN b
    ELSE FloatRound(a.v + b.v)

Sign(a) ==
    CASE a.k = "inf"  -> 1
      [] a.k = "ninf" -> -1
      [] OTHER        -> IF a.v > 0 THEN 1 ELSE IF a.v < 0 THEN -1 ELSE 0

FloatMul(a, b) ==
    IF a.k = "nan" \/ b.k = "nan" THEN NaN
    ELSE IF a.k \in {"inf", "ninf"} \/ b.k \in {"inf", "ninf"}
         THEN (CASE Sign(a) * Sign(b) = 0 -> NaN
                 [] Sign(a) * Sign(b) > 0 -> PosInf
                 [] OTHER                 -> NegInf)
    ELSE FloatRound(a.v * b.v)

\* a + b, a - b, a * b of Python: [raised, val]
PyArith(operator, a, b) ==
    IF a.k = "int" /\ b.k = "int"
    THEN [raised |-> FALSE,
          val |-> PyInt(CASE operator = "add"      -> a.v + b.v
                          [] operator = "subtract" -> a.v - b.v
                          [] OTHER                 -> a.v * b.v)]
    ELSE IF TooLarge(a) \/ TooLarge(b)
    THEN [raised |-> TRUE, val |-> NaN]
    ELSE [raised |-> FALSE,
          val |-> CASE operator = "add"      -> FloatAdd(ToFloat(a), ToFloat(b))
                    [] operator = "subtract" -> FloatAdd(ToFloat(a), FloatNeg(ToFloat(b)))
                    [] OTHER                 -> FloatMul(ToFloat(a), ToFloat(b))]

PyAbs(a) ==
    CASE a.k = "ninf"                    -> PosInf
      [] a.k \in {"int", "float"} /\ a.v < 0 -> [k |-> a.k, v |-> -a.v]
      [] OTHER                           -> a

\* a < b for floats that are not nan (b may be +inf)
FloatLess(a, b) ==
    CASE a.k = "inf"  -> FALSE
      [] b.k = "inf"  -> TRUE
      [] OTHER        -> a.v < b.v

-----------------------------------------------------------------------------
(* Node, Terminal, Function *)

VarX == [k |-> "x", v |-> 0]
NoValue == [k |-> "", v |-> 0]

TerminalNode(value) ==
    [kind |-> "Terminal", value |-> value, operator |-> "", left |-> NULL, right |-> NULL]

FunctionNode(operator, left, right) ==
    [kind |-> "Function", value |-> NoValue, operator |-> operator,
     left |-> left, right |-> right]

\* object construction: the new object gets a fresh identity
Alloc(h, node) == [h |-> Append(h, node), r |-> Len(h) + 1]

\* Function.evaluate with an except clause that returns 0.0
FunctionEvaluateZero(operator, left_val, right_val) ==
    IF operator \notin {"add", "subtract", "multiply"}
    THEN PyFloat(0)
    ELSE LET res == PyArith(operator, left_val, right_val)
         IN  IF res.raised THEN PyFloat(0) ELSE res.val

\* the body of Function.evaluate once both children have been evaluated
Function_evaluate(operator, left_val, right_val) ==
    IF operator \notin {"add", "subtract", "multiply"}
    THEN PosInf
    ELSE LET res == PyArith(operator, left_val, right_val)
         IN  IF res.raised THEN PosInf ELSE res.val

RECURSIVE evaluate(_, _, _)
evaluate(h, n, x) ==
    IF h[n].kind = "Terminal"
    THEN IF h[n].value = VarX THEN PyInt(x) ELSE PyFloat(h[n].value.v)
    ELSE Function_evaluate(h[n].operator,
                           evaluate(h, h[n].left, x),
                           evaluate(h, h[n].right, x))

RECURSIVE CopyShared(_, _)
RECURSIVE copy(_, _)
\* a copy that makes a new node over the children of the old one
CopyShallow(h, n) == Alloc(h, h[n])

\* a copy that copies the left child once and uses it for both children
CopyShared(h, n) ==
    IF h[n].kind = "Terminal"
    THEN Alloc(h, TerminalNode(h[n].value))
    ELSE LET L == copy(h, h[n].left)
         IN  Alloc(L.h, FunctionNode(h[n].operator, L.r, L.r))

copy(h, n) ==
    IF h[n].kind = "Terminal"
    THEN Alloc(h, TerminalNode(h[n].value))
    ELSE LET L == copy(h, h[n].left)
             R == copy(L.h, h[n].right)
         IN  Alloc(R.h, FunctionNode(h[n].operator, L.r, R.r))

IntStr(n) == IF n < 0 THEN "-" \o ToString(-n) ELSE ToString(n)

RECURSIVE to_string(_, _)
to_string(h, n) ==
    IF h[n].kind = "Terminal"
    THEN IF h[n].value = VarX THEN "x" ELSE IntStr(h[n].value.v)
    ELSE LET left_str == to_string(h, h[n].left)
             right_str == to_string(h, h[n].right)
         IN  CASE h[n].operator = "add"      -> "(" \o left_str \o " + " \o right_str \o ")"
               [] h[n].operator = "subtract" -> "(" \o left_str \o " - " \o right_str \o ")"
               [] h[n].operator = "multiply" -> "(" \o left_str \o " * " \o right_str \o ")"
               [] OTHER -> h[n].operator \o "(" \o left_str \o ", " \o right_str \o ")"

RECURSIVE get_all_nodes(_, _)
get_all_nodes(h, n) ==
    IF h[n].kind = "Terminal"
    THEN <<n>>
    ELSE <<n>> \o get_all_nodes(h, h[n].left) \o get_all_nodes(h, h[n].right)

RECURSIVE replace_node(_, _, _, _)
\* [h, ok]: the heap after the call and the value returned
replace_node(h, n, old_node, new_node) ==
    IF h[n].kind = "Terminal"
    THEN [h |-> h, ok |-> FALSE]
    ELSE IF h[n].left = old_node
    THEN [h |-> [h EXCEPT ![n].left = new_node], ok |-> TRUE]
    ELSE IF h[n].right = old_node
    THEN [h |-> [h EXCEPT ![n].right = new_node], ok |-> TRUE]
    ELSE LET L == replace_node(h, h[n].left, old_node, new_node)
         IN  IF L.ok THEN L ELSE replace_node(h, h[n].right, old_node, new_node)


-----------------------------------------------------------------------------
(* Trees as terms: what the random draws of create_random_tree can produce *)

functions == {"add", "subtract", "multiply"}

\* self.terminals = ['x'] + list(range(constant_range[0], constant_range[1] + 1))
terminals(cr) == {VarX} \cup {PyInt(c) : c \in cr[1]..cr[2]}

RECURSIVE TermSize(_)
TermSize(t) == IF t[1] = "T" THEN 1 ELSE 1 + TermSize(t[3]) + TermSize(t[4])

\* the structure of the tree rooted at n
RECURSIVE TermOf(_, _)
TermOf(h, n) ==
    IF h[n].kind = "Terminal"
    THEN <<"T", h[n].value>>
    ELSE <<"F", h[n].operator, TermOf(h, h[n].left), TermOf(h, h[n].right)>>

\* constructs the objects of a term, children first, as the recursion of
\* create_random_tree does
RECURSIVE Build(_, _)
Build(h, t) ==
    IF t[1] = "T"
    THEN Alloc(h, TerminalNode(t[2]))
    ELSE LET L == Build(h, t[3])
             R == Build(L.h, t[4])
         IN  Alloc(R.h, FunctionNode(t[2], L.r, R.r))

RECURSIVE RandomTreeAnyRoot(_, _, _, _)
RECURSIVE create_random_tree(_, _, _, _)
\* create_random_tree without the `current_depth == 0 or`
RandomTreeAnyRoot(cr, depth, current_depth, budget) ==
    LET leaves == {<<"T", v>> : v \in terminals(cr)}
        inner  == IF budget < 3 THEN {}
                  ELSE UNION { UNION { { <<"F", operator, l, r>> : operator \in functions } :
                                   r \in create_random_tree(cr, depth, current_depth + 1,
                                                            budget - 1 - TermSize(l)) } :
                               l \in create_random_tree(cr, depth, current_depth + 1, budget - 2) }
    IN  IF current_depth >= depth THEN leaves ELSE inner \cup leaves

\* every tree create_random_tree(depth, current_depth) can return that has at
\* most budget nodes
create_random_tree(cr, depth, current_depth, budget) ==
    LET leaves == {<<"T", v>> : v \in terminals(cr)}
        inner  == IF budget < 3 THEN {}
                  ELSE UNION { UNION { { <<"F", operator, l, r>> : operator \in functions } :
                                   r \in create_random_tree(cr, depth, current_depth + 1,
                                                            budget - 1 - TermSize(l)) } :
                               l \in create_random_tree(cr, depth, current_depth + 1, budget - 2) }
    IN  IF current_depth >= depth THEN leaves
        ELSE IF current_depth = 0 THEN inner
        ELSE inner \cup leaves

-----------------------------------------------------------------------------
(* Fitness *)

\* self.test_cases = list(range(-10, 11)), within the sample window
test_cases == (0 - SampleLo) .. (0 - SampleHi)

target_function(x) == x * x + 3 * x + 2

RECURSIVE FitnessLoopPartial(_, _, _)
RECURSIVE fitness_loop(_, _, _)
\* the loop with `continue` in place of `return float('inf')`
FitnessLoopPartial(predicted, x, total_error) ==
    IF x > 0 - SampleHi THEN total_error
    ELSE IF TooLarge(predicted[x]) THEN PosInf
    ELSE IF predicted[x].k \in {"inf", "ninf", "nan"}
    THEN fitness_loop(predicted, x + 1, total_error)
    ELSE LET diff == PyArith("subtract", predicted[x], PyInt(target_function(x)))
             sum  == PyArith("add", total_error, PyAbs(diff.val))
         IN  IF diff.raised \/ sum.raised THEN PosInf
             ELSE fitness_loop(predicted, x + 1, sum.val)

\* `for x in self.test_cases` from x on, predicted[x] being individual.evaluate(x)
fitness_loop(predicted, x, total_error) ==
    IF x > 0 - SampleHi THEN total_error
    ELSE IF TooLarge(predicted[x]) THEN PosInf
    ELSE IF predicted[x].k \in {"inf", "ninf", "nan"} THEN PosInf
    ELSE LET diff == PyArith("subtract", predicted[x], PyInt(target_function(x)))
             sum  == PyArith("add", total_error, PyAbs(diff.val))
         IN  IF diff.raised \/ sum.raised THEN PosInf
             ELSE fitness_loop(predicted, x + 1, sum.val)

evaluate_fitness(h, individual) ==
    fitness_loop([x \in test_cases |-> evaluate(h, individual, x)], 0 - SampleLo, PyFloat(0))

evaluate_population(h, pop) == [i \in 1..Len(pop) |-> evaluate_fitness(h, pop[i])]

\* min(range(len(scores)), key=...) and scores.index(min(scores)): the first
\* index that holds a minimal score
FirstMin(scores) ==
    CHOOSE i \in 1..Len(scores) :
        /\ \A j \in 1..Len(scores) : ~FloatLess(scores[j], scores[i])
        /\ \A j \in 1..(i - 1) : FloatLess(scores[i], scores[j])


-----------------------------------------------------------------------------
(* Genetic operators.  The random draws are parameters. *)

Min(a, b) == IF a < b THEN a ELSE b

\* the indices tournament_selection can settle on: members of a sample of
\* min(tournament_size, len(population)) distinct indices that no other member
\* of the sample beats (random.sample returns the sample in any order, and
\* min() keeps the first minimal one)
TournamentWinners(scores, n, size) ==
    { i \in 1..n :
        \E sample \in SUBSET (1..n) :
            /\ Cardinality(sample) = Min(size, n)
            /\ i \in sample
            /\ \A j \in sample : ~FloatLess(scores[j], scores[i]) }

\* random.sample raises ValueError for a negative size, min() for an empty sample
TournamentRaises(n, size) == Min(size, n) <= 0

\* return self.population[best_index].copy()
tournament_selection(h, pop, best_index) == copy(h, pop[best_index])

\* crossover(parent1, parent2); pick1 and pick2 are the positions random.choice
\* takes in nodes1[1:] and nodes2[1:]
crossover(h, p1, p2, pick1, pick2) ==
    LET C1 == copy(h, p1)
        C2 == copy(C1.h, p2)
        nodes1 == get_all_nodes(C2.h, C1.r)
        nodes2 == get_all_nodes(C2.h, C2.r)
    IN  IF Len(nodes1) > 1 /\ Len(nodes2) > 1
        THEN LET node1 == Tail(nodes1)[pick1]
                 node2 == Tail(nodes2)[pick2]
                 subtree1 == copy(C2.h, node1)
                 subtree2 == copy(subtree1.h, node2)
                 R1 == replace_node(subtree2.h, C1.r, node1, subtree2.r)
                 R2 == replace_node(R1.h, C2.r, node2, subtree1.r)
             IN  [h |-> R2.h, child1 |-> C1.r, child2 |-> C2.r,
                  swapped |-> TRUE, ok1 |-> R1.ok, ok2 |-> R2.ok]
        ELSE [h |-> C2.h, child1 |-> C1.r, child2 |-> C2.r,
              swapped |-> FALSE, ok1 |-> FALSE, ok2 |-> FALSE]

\* the picks random.choice can make in crossover
CrossoverPicks(h, p) ==
    IF Len(get_all_nodes(h, p)) > 1 THEN 1..(Len(get_all_nodes(h, p)) - 1) ELSE {1}

\* mutate(individual); pick is the position random.choice takes in nodes,
\* subtree the tree create_random_tree(random.randint(1, 3)) returns
mutate(h, individual, pick, subtree) ==
    LET mutated == copy(h, individual)
        nodes == get_all_nodes(mutated.h, mutated.r)
        node_to_mutate == nodes[pick]
        new_subtree == Build(mutated.h, subtree)
    IN  IF node_to_mutate = mutated.r
        THEN [h |-> new_subtree.h, r |-> new_subtree.r, root |-> TRUE, ok |-> FALSE]
        ELSE LET R == replace_node(new_subtree.h, mutated.r, node_to_mutate, new_subtree.r)
             IN  [h |-> R.h, r |-> mutated.r, root |-> FALSE, ok |-> R.ok]

\* the trees create_random_tree(random.randint(1, 3)) can return
MutationSubtrees(cr) ==
    UNION { create_random_tree(cr, depth, 0, MaxNewNodes) : depth \in 1..3 }

NodeCount(h, n) == Len(get_all_nodes(h, n))

-----------------------------------------------------------------------------
(* Object identities carry no meaning: after every step the objects that no  *)
(* variable reaches are collected and the others renumbered in the order in  *)
(* which the variables reach them.  Sharing between trees is preserved.      *)

Frame(h, pop, newpop, p1, p2, c1, c2) ==
    [heap |-> h, population |-> pop, new_population |-> newpop,
     parent1 |-> p1, parent2 |-> p2, child1 |-> c1, child2 |-> c2]

RECURSIVE AllNodes(_, _)
AllNodes(h, roots) ==
    IF roots = <<>> THEN <<>>
    ELSE (IF Head(roots) = NULL THEN <<>> ELSE get_all_nodes(h, Head(roots)))
         \o AllNodes(h, Tail(roots))

RECURSIVE Dedupe(_, _)
Dedupe(s, acc) ==
    IF s = <<>> THEN acc
    ELSE Dedupe(Tail(s),
                IF \E i \in 1..Len(acc) : acc[i] = Head(s) THEN acc ELSE Append(acc, Head(s)))

Canon(F) ==
    LET roots == F.population \o F.new_population
                 \o <<F.parent1, F.parent2, F.child1, F.child2>>
        order == Dedupe(AllNodes(F.heap, roots), <<>>)
        ren(a) == IF a = NULL THEN NULL ELSE CHOOSE i \in 1..Len(order) : order[i] = a
        node(a) == [F.heap[a] EXCEPT !.left = ren(F.heap[a].left),
                                     !.right = ren(F.heap[a].right)]
    IN  Frame([i \in 1..Len(order) |-> node(order[i])],
              [i \in 1..Len(F.population) |-> ren(F.population[i])],
              [i \in 1..Len(F.new_population) |-> ren(F.new_population[i])],
              ren(F.parent1), ren(F.parent2), ren(F.child1), ren(F.child2))

Commit(F) ==
    \E C \in {Canon(F)} :
        /\ heap' = C.heap
        /\ population' = C.population
        /\ new_population' = C.new_population
        /\ parent1' = C.parent1
        /\ parent2' = C.parent2
        /\ child1' = C.child1
        /\ child2' = C.child2

Here == Frame(heap, population, new_population, parent1, parent2, child1, child2)


-----------------------------------------------------------------------------
(* The evolution driver: GeneticProgramming.__init__ and evolve() *)

NoObs == [op |-> "none", before1 |-> <<>>, before2 |-> <<>>,
          swapped |-> FALSE, ok1 |-> FALSE, ok2 |-> FALSE]
NoEv == [fn |-> "none", operator |-> "", left_val |-> NaN, right_val |-> NaN,
         predicted |-> <<>>, result |-> NaN]

Raised == pc \in {"ValueError", "IndexError"}

\* the state GeneticProgramming(...) leaves, evolve(generations) about to run
Init ==
    /\ pc = "start"
    /\ population_size \in 0..MaxPopulation
    /\ max_depth \in 1..MaxDepthCfg
    /\ tournament_size \in 0..MaxTournament
    /\ constant_range \in {<<1, c>> : c \in 0..MaxConstant}
    /\ generations \in 0..MaxGenerations
    /\ generation = 0
    /\ heap = <<>>
    /\ population = <<>>
    /\ fitness_scores = <<>>
    /\ stats_history = <<>>
    /\ new_population = <<>>
    /\ parent1 = NULL /\ parent2 = NULL /\ child1 = NULL /\ child2 = NULL
    /\ obs = NoObs
    /\ ev = NoEv

Config == <<population_size, max_depth, tournament_size, constant_range, generations>>

RECURSIVE BuildAll(_, _, _)
\* appends the trees of the sequence of terms ts to the population pop
BuildAll(h, pop, ts) ==
    IF ts = <<>> THEN [h |-> h, pop |-> pop]
    ELSE LET B == Build(h, Head(ts))
         IN  BuildAll(B.h, Append(pop, B.r), Tail(ts))

\* the trees initialize_population can draw: depth = random.randint(2, max_depth)
InitialTrees(cr, md) ==
    UNION { create_random_tree(cr, depth, 0, MaxNewNodes) : depth \in 2..md }

\* self.initialize_population(); self.stats_history = []
InitializePopulation ==
    /\ pc = "start"
    /\ IF population_size >= 1 /\ max_depth < 2
       THEN /\ pc' = "ValueError"          \* random.randint(2, max_depth): empty range
            /\ UNCHANGED <<heap, population, new_population,
                           parent1, parent2, child1, child2>>
       ELSE /\ \E ts \in [1..population_size -> InitialTrees(constant_range, max_depth)] :
                   LET B == BuildAll(<<>>, <<>>, ts)
                   IN  Commit(Frame(B.h, B.pop, <<>>, NULL, NULL, NULL, NULL))
            /\ pc' = "for"
    /\ stats_history' = <<>>
    /\ UNCHANGED <<Config, generation, fitness_scores, obs, ev>>

\* for generation in range(generations): the next iteration, or the end of the loop
ForGeneration ==
    /\ pc = "for"
    /\ pc' = IF generation < generations THEN "evaluate" ELSE "final"
    /\ UNCHANGED <<Config, generation, heap, population, fitness_scores, stats_history,
                   new_population, parent1, parent2, child1, child2, obs, ev>>

\* self.evaluate_population()
EvaluatePopulation ==
    /\ pc = "evaluate"
    /\ fitness_scores' = evaluate_population(heap, population)
    /\ pc' = "statistics"
    /\ UNCHANGED <<Config, generation, heap, population, stats_history,
                   new_population, parent1, parent2, child1, child2, obs, ev>>

RECURSIVE FloatSum(_, _)
FloatSum(scores, acc) ==
    IF scores = <<>> THEN acc
    ELSE FloatSum(Tail(scores), PyArith("add", acc, Head(scores)).val)

get_statistics(h, pop, scores, gen) ==
    LET best_index == FirstMin(scores)
        total == FloatSum(scores, PyInt(0))
    IN  [generation |-> gen,
         best_fitness |-> scores[best_index],
         average_fitness |-> [k |-> total.k, v |-> total.v, d |-> Len(scores)],
         best_expression |-> to_string(h, pop[best_index]),
         population_size |-> Len(pop)]

\* stats = self.get_statistics(generation); self.stats_history.append(stats)
CollectStatistics ==
    /\ pc = "statistics"
    /\ IF fitness_scores = <<>>
       THEN /\ pc' = "ValueError"          \* min() of an empty list
            /\ UNCHANGED stats_history
       ELSE /\ stats_history' = Append(stats_history,
                    get_statistics(heap, population, fitness_scores, generation))
            /\ pc' = "check"
    /\ UNCHANGED <<Config, generation, heap, population, fitness_scores,
                   new_population, parent1, parent2, child1, child2, obs, ev>>

\* stats.best_fitness < 0.001
Perfect(stats) == stats.best_fitness.k # "inf" /\ stats.best_fitness.v * 1000 < 1

Last(s) == s[Len(s)]

\* if stats.best_fitness < 0.001: break
BreakOnPerfect ==
    /\ pc = "check"
    /\ Perfect(Last(stats_history))
    /\ pc' = "final"
    /\ UNCHANGED <<Config, generation, heap, population, fitness_scores, stats_history,
                   new_population, parent1, parent2, child1, child2, obs, ev>>

\* the condition under which evolve() builds a next generation
NeedsNextGenerationAlways(gen, gens) == gen < gens
NeedsNextGeneration(gen, gens) == gen < gens - 1

\* if generation < generations - 1 fails: on to the next iteration
SkipNextGeneration ==
    /\ pc = "check"
    /\ ~Perfect(Last(stats_history))
    /\ ~NeedsNextGeneration(generation, generations)
    /\ generation' = generation + 1
    /\ pc' = "for"
    /\ UNCHANGED <<Config, heap, population, fitness_scores, stats_history,
                   new_population, parent1, parent2, child1, child2, obs, ev>>

\* create_next_generation, to its while loop: the best individual is copied
Elitism ==
    /\ pc = "check"
    /\ ~Perfect(Last(stats_history))
    /\ NeedsNextGeneration(generation, generations)
    /\ LET best_index == FirstMin(fitness_scores)
           E == copy(heap, population[best_index])
       IN  Commit([Here EXCEPT !.heap = E.h, !.new_population = <<E.r>>])
    /\ pc' = "while"
    /\ UNCHANGED <<Config, generation, fitness_scores, stats_history, obs, ev>>


\* while len(new_population) < self.population_size: parent1 = self.tournament_selection()
SelectParent1 ==
    /\ pc = "while"
    /\ Len(new_population) < population_size
    /\ IF TournamentRaises(Len(population), tournament_size)
       THEN /\ pc' = "ValueError"
            /\ UNCHANGED <<heap, population, new_population,
                           parent1, parent2, child1, child2>>
       ELSE /\ \E best_index \in TournamentWinners(fitness_scores, Len(population),
                                                   tournament_size) :
                   LET S == tournament_selection(heap, population, best_index)
                   IN  Commit([Here EXCEPT !.heap = S.h, !.parent1 = S.r])
            /\ pc' = "select2"
    /\ UNCHANGED <<Config, generation, fitness_scores, stats_history, obs, ev>>

\* parent2 = self.tournament_selection()
SelectParent2 ==
    /\ pc = "select2"
    /\ \E best_index \in TournamentWinners(fitness_scores, Len(population), tournament_size) :
           LET S == tournament_selection(heap, population, best_index)
           IN  Commit([Here EXCEPT !.heap = S.h, !.parent2 = S.r])
    /\ pc' = "crossover"
    /\ UNCHANGED <<Config, generation, fitness_scores, stats_history, obs, ev>>

\* random.random() < self.crossover_rate: child1, child2 = self.crossover(parent1, parent2)
ApplyCrossover ==
    /\ pc = "crossover"
    /\ \E pick1 \in CrossoverPicks(heap, parent1), pick2 \in CrossoverPicks(heap, parent2) :
           \E X \in {crossover(heap, parent1, parent2, pick1, pick2)} :
               /\ NodeCount(X.h, X.child1) <= MaxNodes
               /\ NodeCount(X.h, X.child2) <= MaxNodes
               /\ Commit([Here EXCEPT !.heap = X.h, !.child1 = X.child1,
                                      !.child2 = X.child2])
               /\ obs' = [op |-> "crossover",
                          before1 |-> TermOf(heap, parent1),
                          before2 |-> TermOf(heap, parent2),
                          swapped |-> X.swapped, ok1 |-> X.ok1, ok2 |-> X.ok2]
    /\ pc' = "mutate1"
    /\ UNCHANGED <<Config, generation, fitness_scores, stats_history, ev>>

\* else: child1, child2 = parent1, parent2
SkipCrossover ==
    /\ pc = "crossover"
    /\ Commit([Here EXCEPT !.child1 = parent1, !.child2 = parent2])
    /\ pc' = "mutate1"
    /\ UNCHANGED <<Config, generation, fitness_scores, stats_history, obs, ev>>

\* random.random() < self.mutation_rate: child1 = self.mutate(child1)
MutateChild1 ==
    /\ pc = "mutate1"
    /\ \E pick \in 1..NodeCount(heap, child1), subtree \in MutationSubtrees(constant_range) :
           \E M \in {mutate(heap, child1, pick, subtree)} :
               /\ NodeCount(M.h, M.r) <= MaxNodes
               /\ Commit([Here EXCEPT !.heap = M.h, !.child1 = M.r])
               /\ obs' = [op |-> "mutate",
                          before1 |-> TermOf(heap, child1), before2 |-> TermOf(heap, child1),
                          swapped |-> M.root, ok1 |-> M.ok, ok2 |-> M.ok]
    /\ pc' = "mutate2"
    /\ UNCHANGED <<Config, generation, fitness_scores, stats_history, ev>>

SkipMutateChild1 ==
    /\ pc = "mutate1"
    /\ pc' = "mutate2"
    /\ obs' = NoObs
    /\ UNCHANGED <<Config, generation, heap, population, fitness_scores, stats_history,
                   new_population, parent1, parent2, child1, child2, ev>>

\* random.random() < self.mutation_rate: child2 = self.mutate(child2)
MutateChild2 ==
    /\ pc = "mutate2"
    /\ \E pick \in 1..NodeCount(heap, child2), subtree \in MutationSubtrees(constant_range) :
           \E M \in {mutate(heap, child2, pick, subtree)} :
               /\ NodeCount(M.h, M.r) <= MaxNodes
               /\ Commit([Here EXCEPT !.heap = M.h, !.child2 = M.r])
               /\ obs' = [op |-> "mutate",
                          before1 |-> TermOf(heap, child2), before2 |-> TermOf(heap, child2),
                          swapped |-> M.root, ok1 |-> M.ok, ok2 |-> M.ok]
    /\ pc' = "extend"
    /\ UNCHANGED <<Config, generation, fitness_scores, stats_history, ev>>

SkipMutateChild2 ==
    /\ pc = "mutate2"
    /\ pc' = "extend"
    /\ obs' = NoObs
    /\ UNCHANGED <<Config, generation, heap, population, fitness_scores, stats_history,
                   new_population, parent1, parent2, child1, child2, ev>>

\* new_population.extend([child1, child2]); the locals die with the iteration
ExtendNewPopulation ==
    /\ pc = "extend"
    /\ Commit([Here EXCEPT !.new_population = new_population \o <<child1, child2>>,
                           !.parent1 = NULL, !.parent2 = NULL,
                           !.child1 = NULL, !.child2 = NULL])
    /\ pc' = "while"
    /\ obs' = NoObs
    /\ UNCHANGED <<Config, generation, fitness_scores, stats_history, ev>>

\* new_population[:self.population_size] without the slice
NoTrim(newpop, size) == newpop
\* new_population[-self.population_size:]
TrimTail(newpop, size) ==
    SubSeq(newpop, Len(newpop) - Min(size, Len(newpop)) + 1, Len(newpop))
\* new_population[:self.population_size]
Trim(newpop, size) == SubSeq(newpop, 1, Min(size, Len(newpop)))

\* return new_population[:self.population_size], assigned to self.population
ReturnNextGeneration ==
    /\ pc = "while"
    /\ ~(Len(new_population) < population_size)
    /\ Commit([Here EXCEPT !.population = Trim(new_population, population_size),
                           !.new_population = <<>>])
    /\ generation' = generation + 1
    /\ pc' = "for"
    /\ UNCHANGED <<Config, fitness_scores, stats_history, obs, ev>>

\* final_stats = self.stats_history[-1]; ...; return self.stats_history
Finish ==
    /\ pc = "final"
    /\ pc' = IF stats_history = <<>> THEN "IndexError" ELSE "done"
    /\ UNCHANGED <<Config, generation, heap, population, fitness_scores, stats_history,
                   new_population, parent1, parent2, child1, child2, obs, ev>>

Next ==
    \/ InitializePopulation
    \/ ForGeneration
    \/ EvaluatePopulation
    \/ CollectStatistics
    \/ BreakOnPerfect
    \/ SkipNextGeneration
    \/ Elitism
    \/ SelectParent1
    \/ SelectParent2
    \/ ApplyCrossover
    \/ SkipCrossover
    \/ MutateChild1
    \/ SkipMutateChild1
    \/ MutateChild2
    \/ SkipMutateChild2
    \/ ExtendNewPopulation
    \/ ReturnNextGeneration
    \/ Finish

Spec == Init /\ [][Next]_vars


-----------------------------------------------------------------------------
(* The genetic operators on their own: crossover and mutate applied in any   *)
(* order to a pool of trees that create_random_tree built.                   *)

\* the trees create_random_tree(depth) returns for depth 0, 1, 2
PoolTrees(cr) == UNION { create_random_tree(cr, depth, 0, MaxNewNodes) : depth \in 0..2 }

InitOps ==
    /\ pc = "ops"
    /\ population_size = PoolSize
    /\ max_depth = 2
    /\ tournament_size = 1
    /\ constant_range \in {<<1, c>> : c \in 0..MaxConstant}
    /\ generations = 0
    /\ generation = 0
    /\ \E ts \in [1..PoolSize -> PoolTrees(constant_range)] :
           \E B \in {BuildAll(<<>>, <<>>, ts)} :
               \E C \in {Canon(Frame(B.h, B.pop, <<>>, NULL, NULL, NULL, NULL))} :
                   heap = C.heap /\ population = C.population
    /\ fitness_scores = <<>>
    /\ stats_history = <<>>
    /\ new_population = <<>>
    /\ parent1 = NULL /\ parent2 = NULL /\ child1 = NULL /\ child2 = NULL
    /\ obs = NoObs
    /\ ev = NoEv

\* child1, child2 = crossover(pool[i], pool[j])
OpsCrossover ==
    /\ pc = "ops"
    /\ \E i \in 1..Len(population), j \in 1..Len(population) :
         \E pick1 \in CrossoverPicks(heap, population[i]),
            pick2 \in CrossoverPicks(heap, population[j]) :
           \E X \in {crossover(heap, population[i], population[j], pick1, pick2)} :
               /\ NodeCount(X.h, X.child1) <= MaxNodes
               /\ NodeCount(X.h, X.child2) <= MaxNodes
               /\ Commit([Here EXCEPT !.heap = X.h,
                                      !.parent1 = population[i], !.parent2 = population[j],
                                      !.child1 = X.child1, !.child2 = X.child2])
               /\ obs' = [op |-> "crossover",
                          before1 |-> TermOf(heap, population[i]),
                          before2 |-> TermOf(heap, population[j]),
                          swapped |-> X.swapped, ok1 |-> X.ok1, ok2 |-> X.ok2]
    /\ pc' = "ops_done"
    /\ UNCHANGED <<Config, generation, fitness_scores, stats_history, ev>>

\* child1 = mutate(pool[i])
OpsMutate ==
    /\ pc = "ops"
    /\ \E i \in 1..Len(population) :
         \E pick \in 1..NodeCount(heap, population[i]),
            subtree \in MutationSubtrees(constant_range) :
           \E M \in {mutate(heap, population[i], pick, subtree)} :
               /\ NodeCount(M.h, M.r) <= MaxNodes
               /\ Commit([Here EXCEPT !.heap = M.h, !.parent1 = population[i],
                                      !.child1 = M.r])
               /\ obs' = [op |-> "mutate",
                          before1 |-> TermOf(heap, population[i]),
                          before2 |-> TermOf(heap, population[i]),
                          swapped |-> M.root, ok1 |-> M.ok, ok2 |-> M.ok]
    /\ pc' = "ops_done"
    /\ UNCHANGED <<Config, generation, fitness_scores, stats_history, ev>>

\* the results take the place of trees of the pool (keep[k] = 1: child1,
\* 2: child2, 0: pool[k] stays); no result is kept twice
OpsKeep ==
    /\ pc = "ops_done"
    /\ \E keep \in [1..Len(population) -> 0..2] :
           /\ \A k \in 1..Len(population) : keep[k] = 2 => child2 # NULL
           /\ \A k, l \in 1..Len(population) : (k # l /\ keep[k] # 0) => keep[k] # keep[l]
           /\ Commit([Here EXCEPT
                  !.population = [k \in 1..Len(population) |->
                                     CASE keep[k] = 1 -> child1
                                       [] keep[k] = 2 -> child2
                                       [] OTHER       -> population[k]],
                  !.parent1 = NULL, !.parent2 = NULL, !.child1 = NULL, !.child2 = NULL])
    /\ obs' = NoObs
    /\ pc' = "ops"
    /\ UNCHANGED <<Config, generation, fitness_scores, stats_history, ev>>

NextOps == OpsCrossover \/ OpsMutate \/ OpsKeep

SpecOps == InitOps /\ [][NextOps]_vars

-----------------------------------------------------------------------------
(* Function.evaluate and evaluate_fitness as functions of what the children, *)
(* and the individual, evaluate to.                                          *)

\* the numbers a subtree can evaluate to: ints and floats up to and just
\* beyond the largest finite float, the infinities and nan
EvalValues ==
    {PyInt(n) : n \in (0 - FloatMax - 1)..(FloatMax + 1)}
    \cup {PyFloat(n) : n \in (0 - FloatMax)..FloatMax}
    \cup {PosInf, NegInf, NaN}

\* the trees whose evaluation is checked: create_random_tree(2) over the
\* terminals x, 0, 1
EvalTrees == create_random_tree(<<0, 1>>, 2, 0, MaxEvalNodes)

InitEval ==
    /\ pc = "eval"
    /\ \/ /\ \E operator \in functions, l \in EvalValues, r \in EvalValues :
                ev = [NoEv EXCEPT !.fn = "evaluate", !.operator = operator,
                                  !.left_val = l, !.right_val = r]
          /\ heap = <<>> /\ population = <<>>
       \/ /\ \E predicted \in [test_cases -> EvalValues] :
                ev = [NoEv EXCEPT !.fn = "evaluate_fitness", !.predicted = predicted]
          /\ heap = <<>> /\ population = <<>>
       \/ /\ ev = [NoEv EXCEPT !.fn = "individual"]
          /\ \E t \in EvalTrees :
                \E B \in {Build(<<>>, t)} : heap = B.h /\ population = <<B.r>>
    /\ population_size = 0
    /\ max_depth = 2
    /\ tournament_size = 1
    /\ constant_range = <<0, 1>>
    /\ generations = 0
    /\ generation = 0
    /\ fitness_scores = <<>>
    /\ stats_history = <<>>
    /\ new_population = <<>>
    /\ parent1 = NULL /\ parent2 = NULL /\ child1 = NULL /\ child2 = NULL
    /\ obs = NoObs

Rest == <<Config, generation, heap, population, fitness_scores, stats_history,
          new_population, parent1, parent2, child1, child2, obs>>

\* a Function node whose children evaluate to left_val and right_val is evaluated
EvalFunction ==
    /\ pc = "eval"
    /\ ev.fn = "evaluate"
    /\ ev' = [ev EXCEPT !.result = Function_evaluate(ev.operator, ev.left_val, ev.right_val)]
    /\ pc' = "eval_done"
    /\ UNCHANGED Rest

\* evaluate_fitness of an individual that evaluates to predicted[x] at x
EvalFitness ==
    /\ pc = "eval"
    /\ ev.fn = "evaluate_fitness"
    /\ ev' = [ev EXCEPT !.result = fitness_loop(ev.predicted, 0 - SampleLo, PyFloat(0))]
    /\ pc' = "eval_done"
    /\ UNCHANGED Rest

\* evaluate_fitness(individual) of a tree; predicted keeps what it evaluates to
EvalIndividual ==
    /\ pc = "eval"
    /\ ev.fn = "individual"
    /\ ev' = [ev EXCEPT !.predicted = [x \in test_cases |-> evaluate(heap, population[1], x)],
                        !.result = evaluate_fitness(heap, population[1])]
    /\ pc' = "eval_done"
    /\ UNCHANGED Rest

NextEval == EvalFunction \/ EvalFitness \/ EvalIndividual

SpecEval == InitEval /\ [][NextEval]_vars


-----------------------------------------------------------------------------
(* Properties *)

\* the roots the variables hold
Roots ==
    {population[i] : i \in 1..Len(population)}
    \cup {new_population[i] : i \in 1..Len(new_population)}
    \cup ({parent1, parent2, child1, child2} \ {NULL})

NodeSet(h, n) == {get_all_nodes(h, n)[i] : i \in 1..Len(get_all_nodes(h, n))}

\* a <= b for floats that are not nan
FloatLeq(a, b) == ~FloatLess(b, a)

InDriverLoop ==
    pc \in {"for", "evaluate", "statistics", "check", "while", "select2", "crossover",
            "mutate1", "mutate2", "extend", "final", "done"}

\* C1: whenever population_size >= 1, self.population holds exactly
\* population_size individuals from initialize_population on, whatever
\* create_next_generation drew, and create_next_generation never returns more
\* or fewer than population_size individuals.
C1_PopulationSize ==
    (population_size >= 1 /\ InDriverLoop) => Len(population) = population_size

\* C1 witness: create_next_generation has returned for an even population_size,
\* where the pairs overshoot and the slice cuts one child off.
C1_Witness ==
    /\ pc = "evaluate"
    /\ generation = 1
    /\ population_size = 2
    /\ Len(population) = 2

C3_RunCompletes ==
    (population_size >= 1 /\ max_depth >= 2 /\ tournament_size >= 1 /\ generations >= 0)
        => /\ ~Raised
           /\ pc = "done" =>
                 /\ Len(stats_history) >= 1
                 /\ Len(stats_history) <= generations
                 /\ Last(stats_history).best_expression
                        = to_string(heap, population[FirstMin(fitness_scores)])

\* C8 (as claimed): a population_size <= 0 is rejected at construction, so
\* evaluate_population and get_statistics never run on an empty population.
C8_EmptyPopulationRejected ==
    pc \in {"evaluate", "statistics"} => population # <<>>

\* C9: the records carry the generation indices 0, 1, 2, ... in order; a record
\* is appended after the whole population has been evaluated; no record but the
\* last has best_fitness < 0.001, and once the last one has, no next population
\* is built; a run without such a record returns exactly `generations` records,
\* and the population it leaves is the one the last record was taken from.
C9_History ==
    /\ \A i \in 1..Len(stats_history) : stats_history[i].generation = i - 1
    /\ \A i \in 1..(Len(stats_history) - 1) : ~Perfect(stats_history[i])
    /\ pc = "check" =>
           /\ Len(stats_history) = generation + 1
           /\ fitness_scores = evaluate_population(heap, population)
           /\ Last(stats_history).best_fitness = fitness_scores[FirstMin(fitness_scores)]
    /\ (stats_history # <<>> /\ pc # "check" /\ Perfect(Last(stats_history))) =>
           /\ pc \in {"final", "done"}
           /\ new_population = <<>>
    /\ pc = "done" =>
           /\ fitness_scores = evaluate_population(heap, population)
           /\ Last(stats_history).best_fitness = fitness_scores[FirstMin(fitness_scores)]
           /\ Len(stats_history) <= generations
           /\ ~Perfect(Last(stats_history)) => Len(stats_history) = generations

\* C9 witness: a run with a budget of 2 that returned after its first record,
\* which had best_fitness < 0.001.
C9_Witness ==
    /\ pc = "done"
    /\ generations = 2
    /\ Len(stats_history) = 1
    /\ Perfect(stats_history[1])

\* C10: with max_depth >= 2 the root of every individual the driver holds
\* (population, new population, selected parents, children) is a Function node,
\* and every crossover call finds len(nodes) > 1 for both trees and has both
\* replace_node calls return True.
C10_RootsAreFunctions ==
    max_depth >= 2 =>
        /\ \A r \in Roots : heap[r].kind = "Function"
        /\ obs.op = "crossover" => (obs.swapped /\ obs.ok1 /\ obs.ok2)

\* C10 witness: the driver has just mutated a child at its root.
C10_Witness ==
    /\ pc = "extend"
    /\ obs.op = "mutate"
    /\ obs.swapped
    /\ heap[child2].kind = "Function"

\* C4: after crossover(parent1, parent2) both parents have the structure they
\* had before the call, and no node object is reachable from two of parent1,
\* parent2, child1, child2 (two parents that are one object aside).
C4_CrossoverNoAliasing ==
    (pc = "ops_done" /\ obs.op = "crossover") =>
        /\ TermOf(heap, parent1) = obs.before1
        /\ TermOf(heap, parent2) = obs.before2
        /\ NodeSet(heap, child1) \cap NodeSet(heap, child2) = {}
        /\ \A p \in {parent1, parent2}, c \in {child1, child2} :
               NodeSet(heap, p) \cap NodeSet(heap, c) = {}
        /\ parent1 # parent2 => NodeSet(heap, parent1) \cap NodeSet(heap, parent2) = {}

\* C4 witness: a crossover of two distinct trees that swapped subtrees and
\* gave a first child that differs from the first parent.
C4_Witness ==
    /\ pc = "ops_done"
    /\ obs.op = "crossover"
    /\ obs.swapped
    /\ parent1 # parent2
    /\ TermOf(heap, child1) # obs.before1

WellFormed(h, root) ==
    LET nodes == get_all_nodes(h, root)
    IN  /\ \A i, j \in 1..Len(nodes) : i # j => nodes[i] # nodes[j]
        /\ \A i \in 1..Len(nodes) :
               IF h[nodes[i]].kind = "Function"
               THEN /\ h[nodes[i]].left \in 1..Len(h)
                    /\ h[nodes[i]].right \in 1..Len(h)
               ELSE /\ h[nodes[i]].kind = "Terminal"
                    /\ h[nodes[i]].left = NULL
                    /\ h[nodes[i]].right = NULL

\* C5: every tree that any sequence of crossover and mutate applications
\* produces from trees of create_random_tree is well-formed: get_all_nodes
\* lists no node twice, every Function node has two children, every Terminal
\* is a leaf.
C5_WellFormed == \A r \in Roots : WellFormed(heap, r)

\* C5 witness: a crossover that swapped subtrees of a tree that an earlier
\* mutation had grown beyond the size of a freshly generated tree.
C5_Witness ==
    /\ pc = "ops_done"
    /\ obs.op = "crossover"
    /\ obs.swapped
    /\ NodeCount(heap, parent1) > MaxNewNodes

\* C6 (as claimed): a Function node one of whose children evaluates to +inf
\* evaluates to +inf, whatever the operator and the other child.
C6_InfinityPropagates ==
    (pc = "eval_done" /\ ev.fn = "evaluate"
        /\ (ev.left_val = PosInf \/ ev.right_val = PosInf))
        => ev.result = PosInf

\* C6 (amended): a Function node one of whose children evaluates to +inf
\* evaluates to +inf, -inf or nan, never to a finite number.
C6_InfinityNeverFinite ==
    (pc = "eval_done" /\ ev.fn = "evaluate"
        /\ (ev.left_val = PosInf \/ ev.right_val = PosInf))
        => ev.result.k \in {"inf", "ninf", "nan"}

\* C6 witness: +inf times zero has been evaluated, to nan.
C6_Witness ==
    /\ pc = "eval_done"
    /\ ev.fn = "evaluate"
    /\ ev.operator = "multiply"
    /\ ev.left_val = PosInf
    /\ ev.right_val = PyFloat(0)
    /\ ev.result = NaN

\* the sum of |predicted[x] - target(x)| over the whole sample
RECURSIVE TotalError(_, _)
TotalError(predicted, xs) ==
    IF xs = {} THEN 0
    ELSE LET x == CHOOSE y \in xs : TRUE
             d == predicted[x].v - target_function(x)
         IN  (IF d < 0 THEN -d ELSE d) + TotalError(predicted, xs \ {x})

\* C7: evaluate_fitness is +inf as soon as the prediction at one sample point
\* is infinite, nan or too large to be classified; otherwise it is the sum of
\* |predicted - target| over all sample points (+inf when that sum exceeds the
\* floats).  It is never negative, never nan, never the sum of a part of the
\* sample.
C7_AllOrNothing ==
    (pc = "eval_done" /\ ev.fn \in {"evaluate_fitness", "individual"}) =>
        /\ ev.result =
              IF \E x \in test_cases : ~IsFinite(ev.predicted[x]) \/ TooLarge(ev.predicted[x])
              THEN PosInf
              ELSE FloatRound(TotalError(ev.predicted, test_cases))
        /\ ev.result.k \in {"float", "inf"}
        /\ ev.result.v >= 0

\* C7 witness: predictions that are finite at the first sample point and nan
\* at the second have been given the fitness +inf, not the error of the first.
C7_Witness ==
    /\ pc = "eval_done"
    /\ ev.fn = "evaluate_fitness"
    /\ ev.predicted[0 - SampleLo] = PyFloat(1)
    /\ ev.predicted[0 - SampleHi] = NaN
    /\ ev.result = PosInf

=============================================================================
